---- MODULE Spec2Model ----
(***************************************************************************)
(* ShuttleUp: the credit ledger driven by the Dashboard (top-up, hosting   *)
(* fee) and the App's profile bootstrap, and the live scoring view.        *)
(*                                                                         *)
(* Two specifications share one state:                                     *)
(*   SpecLedger - browser tabs of signed-in users working on the profiles, *)
(*                credit_transactions and tournaments tables;              *)
(*   SpecScore  - scoring clients working on one row of the matches table. *)
(***************************************************************************)
EXTENDS Integers, Sequences, FiniteSets, TLC

VARIABLES
    \* ---- database: ledger tables
    profiles,       \* profiles table: user -> [exists, credits]
    transactions,   \* credit_transactions table, in insertion order
    tournaments,    \* tournaments table, in insertion order
    \* ---- one browser tab of the App + Dashboard
    session,        \* App.session of the tab: the signed-in user
    appState,       \* App.appState of the tab
    profile,        \* App.profile of the tab (the cached profiles row)
    pc,             \* where handleCreateTournament of the tab stands
    rpcResult,      \* { data, error } the tab got from deduct_credits_for_tournament
    run,            \* history: what the tab's last handleCreateTournament did
    lastCredit,     \* history: the last finalizePayment call and what it saw
    \* ---- database: the match row, and the scoring clients
    stored,         \* the row of the matches table
    match,          \* ScoringView.match of the client
    loading,        \* ScoringView.loading of the client
    history,        \* ScoringView.history of the client
    fetchResp,      \* the answer to fetchMatchDetails, on its way to the client
    subscribed,     \* the client's realtime channel is set up
    rtq,            \* realtime UPDATE payloads on their way to the client
    tally,          \* history: how many requests were issued so far
    \* ---- database: one tournament with its teams, roster and matches, and
    \* ---- the TournamentView clients of its organizer
    is_locked,      \* tournaments.is_locked of the tournament
    dbTeams,        \* number of rows of teams for the tournament
    dbMembers,      \* number of rows of team_members for its teams
    dbMatches,      \* match_order of the rows of matches, in insertion order
    tournament,     \* TournamentView.tournament of the client (its is_locked)
    teams,          \* TournamentView.teams of the client (its length)
    teamMembers,    \* TournamentView.teamMembers of the client (entries)
    matches,        \* TournamentView.matches of the client (its length)
    \* ---- AuthPage: sign-up forms
    formData,       \* AuthPage.formData.username of the form
    signedUp,       \* the username and identity the form signed up with
    \* ---- App: authentication gate (one App instance; authState belongs to
    \* ---- the App with appState, the three flags to the App before it)
    authSession,    \* App.session: the signed-in user, or "none"
    authProfile,    \* App.profile
    authState,      \* App.appState
    isPinVerified,  \* App.isPinVerified
    fetchInProgress,\* App.fetchInProgress.current
    fetchReq,       \* the profiles select of fetchProfile that is in flight
    authLoading,    \* App.loading
    profileError,   \* App.profileError
    slowLoad,       \* App.slowLoad
    pinEntered,     \* history: the PIN was accepted for this profile since sign-in
    authRows        \* profiles table: the role column of each account's row

ledgerVars == <<profiles, transactions, tournaments, session, appState, profile, pc,
                rpcResult, run, lastCredit>>
scoreVars  == <<stored, match, loading, history, fetchResp, subscribed,
                rtq, tally>>
tvVars     == <<is_locked, dbTeams, dbMembers, dbMatches, tournament, teams,
                teamMembers, matches>>
vars       == <<profiles, transactions, tournaments, session, appState, profile, pc,
                rpcResult, run, lastCredit,
                stored, match, loading, history, fetchResp, subscribed,
                rtq, tally,
                is_locked, dbTeams, dbMembers, dbMatches, tournament, teams,
                teamMembers, matches,
                formData, signedUp,
                authSession, authProfile, authState, isPinVerified, fetchInProgress,
                fetchReq, authLoading, profileError, slowLoad, pinEntered,
                authRows>>
idVars     == <<formData, signedUp>>
authVars   == <<authSession, authProfile, authState, isPinVerified, fetchInProgress,
                fetchReq, authLoading, profileError, slowLoad, pinEntered,
                authRows>>

nonLedgerVars == <<scoreVars, tvVars, idVars, authVars>>
nonScoreVars  == <<ledgerVars, tvVars, idVars, authVars>>
nonTvVars     == <<ledgerVars, scoreVars, idVars, authVars>>
nonIdVars     == <<ledgerVars, scoreVars, tvVars, authVars>>
nonAuthVars   == <<ledgerVars, scoreVars, tvVars, idVars>>

----------------------------------------------------------------------------
(* Bounds *)

MaxPayments    == 2     \* finalizePayment calls
MaxTournaments == 2     \* rows of tournaments

Users        == {"u1", "u2"}
Tabs         == {"t1", "t2"}
Refs         == {"pay_1", "pay_2"}
TopUpAmounts == {200}           \* the first of the four buttons of the top-up modal

TournamentCost == 200

MaxOps   == 3           \* requests on the match row: updateScore, handleUndo
                        \* and administrative status changes
MaxSoloOps == 4         \* the same, for a scorer working alone

MaxTeams   == 2         \* rows of teams
MaxMembers == 1         \* rows of team_members
MaxMatches == 2         \* rows of matches
Organizers == {"o1", "o2"}   \* TournamentView clients (tabs) of the organizer

MaxLen == 4             \* characters in the username input
Keys   == {"a", "b", "_", "A"}   \* characters typed into the username input
Forms  == {"f1", "f2"}  \* sign-up forms (two visitors)

AuthUsers == {"p1", "p2", "a1"}   \* accounts: two players and the superadmin
Scorers  == {"s1", "s2"}
Sides    == {"a", "b"}
Deltas   == {1, -1}

----------------------------------------------------------------------------
(* Ledger: values *)

NullProfile == [id |-> "null", credits |-> 0]
NoResult    == [data |-> FALSE, error |-> FALSE, seen |-> 0]
NoRun       == [state |-> "none", created |-> FALSE, debited |-> FALSE, net |-> 0]
NoCredit    == [n |-> 0, calls |-> {}, amount |-> 0, replay |-> FALSE,
                fresh |-> FALSE, ok |-> FALSE, delta |-> 0]

RECURSIVE SumAmounts(_, _)
SumAmounts(txs, u) ==
    IF txs = <<>> THEN 0
    ELSE (IF Head(txs).profile_id = u THEN Head(txs).amount ELSE 0)
         + SumAmounts(Tail(txs), u)

RowsWithRef(txs, ref) == {i \in DOMAIN txs : txs[i].razorpay_payment_id = ref}

----------------------------------------------------------------------------
(* Ledger: the two stored routines.  Their SQL is not part of the sources; *)
(* they are written from sections 4.4 and 6 of the specification.  Each    *)
(* runs as one atomic unit and yields the new tables and the { data,       *)
(* error } pair the supabase client hands to the caller.                   *)

add_credits_after_payment(user_uuid, topup_amount, payment_id) ==
    IF ~profiles[user_uuid].exists
    THEN [profiles |-> profiles, transactions |-> transactions,
          data |-> FALSE, error |-> TRUE]
    ELSE IF payment_id # "null" /\ RowsWithRef(transactions, payment_id) # {}
    THEN [profiles |-> profiles, transactions |-> transactions,
          data |-> TRUE, error |-> FALSE]
    ELSE [profiles |-> [profiles EXCEPT ![user_uuid].credits = @ + topup_amount],
          transactions |-> Append(transactions,
                [profile_id |-> user_uuid, amount |-> topup_amount,
                 type |-> "purchase", razorpay_payment_id |-> payment_id]),
          data |-> TRUE, error |-> FALSE]

deduct_credits_unchecked(user_uuid, cost, asError) ==
    [profiles |-> [profiles EXCEPT ![user_uuid].credits = @ - cost],
     transactions |-> Append(transactions,
           [profile_id |-> user_uuid, amount |-> 0 - cost,
            type |-> "deduction", razorpay_payment_id |-> "null"]),
     data |-> TRUE, error |-> FALSE,
     seen |-> profiles[user_uuid].credits]

\* failure is reported either as an error or as a false result without an
\* error (asError picks one)
deduct_credits_for_tournament(user_uuid, cost, asError) ==
    IF ~profiles[user_uuid].exists
    THEN [profiles |-> profiles, transactions |-> transactions,
          data |-> FALSE, error |-> TRUE, seen |-> 0]
    ELSE IF profiles[user_uuid].credits - cost < 0
    THEN [profiles |-> profiles, transactions |-> transactions,
          data |-> FALSE, error |-> asError,
          seen |-> profiles[user_uuid].credits]
    ELSE [profiles |-> [profiles EXCEPT ![user_uuid].credits = @ - cost],
          transactions |-> Append(transactions,
                [profile_id |-> user_uuid, amount |-> 0 - cost,
                 type |-> "deduction", razorpay_payment_id |-> "null"]),
          data |-> TRUE, error |-> FALSE,
          seen |-> profiles[user_uuid].credits]

----------------------------------------------------------------------------
(* App: profile bootstrap *)

\* fetchProfile: the select answers with the row, or with an error (no row,
\* or any other failure); every error leads to 'no_profile'.
FetchProfile(t) ==
    /\ appState[t] = "loading_profile"
    /\ \E failed \in BOOLEAN :
         IF failed \/ ~profiles[session[t]].exists
         THEN /\ appState' = [appState EXCEPT ![t] = "no_profile"]
              /\ UNCHANGED profile
         ELSE /\ profile' = [profile EXCEPT ![t] =
                    [id |-> session[t], credits |-> profiles[session[t]].credits]]
              /\ appState' = [appState EXCEPT ![t] = "ready"]
    /\ UNCHANGED <<profiles, transactions, tournaments, session, pc, rpcResult, run,
                   lastCredit>>
    /\ UNCHANGED nonLedgerVars

\* the row initializeProfile upserts: a new row, or the existing row with the
\* columns of the payload overwritten
upsertProfile(row) == [exists |-> TRUE, credits |-> 0]

\* initializeProfile ("Enter Dashboard" on the no_profile screen)
InitializeProfile(t) ==
    /\ appState[t] = "no_profile"
    /\ \E failed \in BOOLEAN :
         IF failed
         THEN /\ UNCHANGED <<profiles, appState>>
         ELSE /\ profiles' = [profiles EXCEPT
                                ![session[t]] = upsertProfile(profiles[session[t]])]
              /\ appState' = [appState EXCEPT ![t] = "loading_profile"]
    /\ UNCHANGED <<transactions, tournaments, session, profile, pc, rpcResult, run,
                   lastCredit>>
    /\ UNCHANGED nonLedgerVars

\* .insert({ id, ..., credits: 0 }): a row with this id makes the insert fail
\* with a duplicate key and stays as it is
insertProfile(row) == IF row.exists THEN row ELSE [exists |-> TRUE, credits |-> 0]

\* createMissingProfile ("Profile Missing" screen of the earlier App).  A
\* successful insert, or a duplicate key in the version that tolerates it, goes
\* on to fetch the profile again; any other outcome leaves the screen.
CreateMissingProfile(t) ==
    /\ appState[t] = "no_profile"
    /\ \E failed \in BOOLEAN :
         IF failed
         THEN /\ UNCHANGED <<profiles, appState>>
         ELSE /\ profiles' = [profiles EXCEPT
                                ![session[t]] = insertProfile(profiles[session[t]])]
              /\ appState' = [appState EXCEPT ![t] = "loading_profile"]
    /\ UNCHANGED <<transactions, tournaments, session, profile, pc, rpcResult, run,
                   lastCredit>>
    /\ UNCHANGED nonLedgerVars

\* window.location.reload(): the App starts over and fetches the profile
Reload(t) ==
    /\ appState[t] = "ready"
    /\ pc[t] = "idle"
    /\ appState' = [appState EXCEPT ![t] = "loading_profile"]
    /\ profile' = [profile EXCEPT ![t] = NullProfile]
    /\ UNCHANGED <<profiles, transactions, tournaments, session, pc, rpcResult, run,
                   lastCredit>>
    /\ UNCHANGED nonLedgerVars

----------------------------------------------------------------------------
(* Dashboard: top-up *)

\* the parameters finalizePayment passes to the routine
finalizePaymentArgs_noRef(prof, topUpAmount, paymentId) ==
    [user_uuid |-> prof.id, topup_amount |-> topUpAmount, payment_id |-> "null"]

finalizePaymentArgs(prof, topUpAmount, paymentId) ==
    [user_uuid |-> prof.id, topup_amount |-> topUpAmount, payment_id |-> paymentId]

\* finalizePayment(paymentId), with the amount chosen in the top-up modal
FinalizePayment(t, topUpAmount, paymentId) ==
    /\ appState[t] = "ready"
    /\ pc[t] = "idle"
    /\ profile[t] # NullProfile
    /\ lastCredit.n < MaxPayments
    /\ LET args == finalizePaymentArgs(profile[t], topUpAmount, paymentId)
           res  == add_credits_after_payment(args.user_uuid, args.topup_amount,
                                             args.payment_id)
           u    == profile[t].id
       IN /\ profiles' = res.profiles
          /\ transactions' = res.transactions
          /\ lastCredit' =
                [n      |-> lastCredit.n + 1,
                 calls  |-> lastCredit.calls \cup {<<u, paymentId>>},
                 amount |-> topUpAmount,
                 replay |-> <<u, paymentId>> \in lastCredit.calls,
                 fresh  |-> \A v \in Users : <<v, paymentId>> \notin lastCredit.calls,
                 ok     |-> ~res.error,
                 delta  |-> res.profiles[u].credits - profiles[u].credits]
    /\ UNCHANGED <<tournaments, session, appState, profile, pc, rpcResult, run>>
    /\ UNCHANGED nonLedgerVars

----------------------------------------------------------------------------
(* Dashboard: hosting a tournament *)

\* after the routine answered: does handleCreateTournament go on to the insert?
\* (Dashboard.tsx: "if (creditError) throw creditError")
goesOnToInsert(res) == ~res.error

\* handleCreateTournament up to the answer of deduct_credits_for_tournament
CreateTournamentDeduct(t) ==
    /\ appState[t] = "ready"
    /\ pc[t] = "idle"
    /\ profile[t] # NullProfile
    /\ IF profile[t].credits < TournamentCost
       THEN \* alert('Insufficient credits!'); return
            /\ run' = [run EXCEPT ![t] = [state |-> "done", created |-> FALSE,
                                          debited |-> FALSE, net |-> 0]]
            /\ UNCHANGED <<profiles, transactions, pc, rpcResult>>
       ELSE \E asError \in BOOLEAN :
              LET res == deduct_credits_for_tournament(profile[t].id,
                                                       TournamentCost, asError)
              IN /\ profiles' = res.profiles
                 /\ transactions' = res.transactions
                 /\ rpcResult' = [rpcResult EXCEPT ![t] =
                        [data |-> res.data, error |-> res.error, seen |-> res.seen]]
                 /\ pc' = [pc EXCEPT ![t] = "deducted"]
                 /\ run' = [run EXCEPT ![t] =
                        [state |-> "running", created |-> FALSE,
                         debited |-> res.data,
                         net |-> res.profiles[profile[t].id].credits
                                   - profiles[profile[t].id].credits]]
    /\ UNCHANGED <<tournaments, session, appState, profile, lastCredit>>
    /\ UNCHANGED nonLedgerVars

\* the rest of handleCreateTournament: throw, or insert into tournaments (the
\* insert, or the toISOString() before it, may fail), then catch / finally
CreateTournamentInsert(t) ==
    /\ pc[t] = "deducted"
    /\ pc' = [pc EXCEPT ![t] = "idle"]
    /\ rpcResult' = [rpcResult EXCEPT ![t] = NoResult]
    /\ IF ~goesOnToInsert(rpcResult[t])
       THEN /\ run' = [run EXCEPT ![t].state = "done"]
            /\ UNCHANGED tournaments
       ELSE \E inserted \in BOOLEAN :
              IF inserted /\ Len(tournaments) < MaxTournaments
              THEN /\ tournaments' = Append(tournaments,
                                            [organizer_id |-> profile[t].id])
                   /\ run' = [run EXCEPT ![t].state = "done", ![t].created = TRUE]
              ELSE /\ run' = [run EXCEPT ![t].state = "done"]
                   /\ UNCHANGED tournaments
    /\ UNCHANGED <<profiles, transactions, session, appState, profile, lastCredit>>
    /\ UNCHANGED nonLedgerVars

----------------------------------------------------------------------------
(* Ledger: specification *)

InitLedger ==
    \* u1 has its row already; u2 signed up and has no row yet
    /\ profiles = [u \in Users |-> [exists |-> (u = "u1"), credits |-> 0]]
    /\ transactions = <<>>
    /\ tournaments = <<>>
    /\ session \in {f \in [Tabs -> Users] : f["t1"] = "u1"}
    /\ appState = [t \in Tabs |-> "loading_profile"]
    /\ profile = [t \in Tabs |-> NullProfile]
    /\ pc = [t \in Tabs |-> "idle"]
    /\ rpcResult = [t \in Tabs |-> NoResult]
    /\ run = [t \in Tabs |-> NoRun]
    /\ lastCredit = NoCredit

----------------------------------------------------------------------------
(* Scoring: values *)

Max(x, y) == IF x >= y THEN x ELSE y

\* the values the matches table gives the columns an insert leaves out
MatchDefaults == [score_a |-> 0, score_b |-> 0, sets_won_a |-> 0, sets_won_b |-> 0,
                  winner_team_id |-> "null", current_set |-> 1]

\* the row handleGenerateMatch inserts (status 'scheduled', max_points 21; the
\* other columns take their defaults).  commit is history: the number of
\* writes the stored row has taken, carried by every copy of the row.
NewMatch == [status |-> "scheduled", max_points |-> 21, commit |-> 0] @@ MatchDefaults

NullMatch == [status |-> "null", score_a |-> 0, score_b |-> 0,
              sets_won_a |-> 0, sets_won_b |-> 0, winner_team_id |-> "null",
              max_points |-> 0, current_set |-> 0, commit |-> 0]

\* the columns of a row, without the history field
Columns(row) == [row EXCEPT !.commit = 0]

NoFetch == [state |-> "none", row |-> NullMatch]

\* no request issued yet; cap is the number of requests a behaviour may issue
NoTally == [ops |-> 0, cap |-> MaxOps]


Terminal == {"completed", "cancelled"}

----------------------------------------------------------------------------
(* ScoringView *)

\* Math.max(0, score + delta)
newScore_noClamp(score, delta) == score + delta

newScore(score, delta) == Max(0, score + delta)

\* the columns updateScore writes, computed from the client's own snapshot
updateScorePayload_keepStatus(m, side, delta) ==
    [score_a |-> IF side = "a" THEN newScore(m.score_a, delta) ELSE m.score_a,
     score_b |-> IF side = "b" THEN newScore(m.score_b, delta) ELSE m.score_b,
     status  |-> m.status]

updateScorePayload(m, side, delta) ==
    [score_a |-> IF side = "a" THEN newScore(m.score_a, delta) ELSE m.score_a,
     score_b |-> IF side = "b" THEN newScore(m.score_b, delta) ELSE m.score_b,
     status  |-> "live"]

\* .update({ score_a, score_b, status }).eq('id', matchId): no other condition
applyScoreUpdate_scoresOnly(row, payload) ==
    [row EXCEPT !.score_a = payload.score_a, !.score_b = payload.score_b,
                !.commit = @ + 1]

applyScoreUpdate(row, payload) ==
    [row EXCEPT !.score_a = payload.score_a, !.score_b = payload.score_b,
                !.status = payload.status, !.commit = @ + 1]

\* .update({ score_a: lastState.a, score_b: lastState.b }).eq('id', matchId)
applyUndoUpdate_sideA(row, lastState) ==
    [row EXCEPT !.score_a = lastState.a, !.commit = @ + 1]

applyUndoUpdate(row, lastState) ==
    [row EXCEPT !.score_a = lastState.a, !.score_b = lastState.b,
                !.commit = @ + 1]

\* postgres_changes UPDATE: the new row goes to every subscribed client
Publish(row) ==
    rtq' = [c \in Scorers |-> IF subscribed[c] THEN Append(rtq[c], row) ELSE rtq[c]]

\* useEffect on mount: fetchMatchDetails() is issued and the channel is set up
Open(c) ==
    /\ ~subscribed[c]
    /\ subscribed' = [subscribed EXCEPT ![c] = TRUE]
    /\ fetchResp' = [fetchResp EXCEPT ![c] = [state |-> "asked", row |-> NullMatch]]
    /\ UNCHANGED <<stored, match, loading, history, rtq, tally>>
    /\ UNCHANGED nonScoreVars

\* the select of fetchMatchDetails is answered from the stored row
FetchRead(c) ==
    /\ fetchResp[c].state = "asked"
    /\ fetchResp' = [fetchResp EXCEPT ![c] = [state |-> "answered", row |-> stored]]
    /\ UNCHANGED <<stored, match, loading, history, subscribed, rtq, tally>>
    /\ UNCHANGED nonScoreVars

\* fetchMatchDetails after the await: setMatch(matchData); setLoading(false)
FetchArrive(c) ==
    /\ fetchResp[c].state = "answered"
    /\ match' = [match EXCEPT ![c] = fetchResp[c].row]
    /\ loading' = [loading EXCEPT ![c] = FALSE]
    /\ fetchResp' = [fetchResp EXCEPT ![c] = NoFetch]
    /\ UNCHANGED <<stored, history, subscribed, rtq, tally>>
    /\ UNCHANGED nonScoreVars

\* setMatch(payload.new as Match): the event's row replaces the snapshot
adopt_scoresOnly(m, new) ==
    [m EXCEPT !.score_a = new.score_a, !.score_b = new.score_b,
              !.commit = new.commit]

adopt(m, new) == new

\* the channel's callback
RealtimeUpdate(c) ==
    /\ rtq[c] # <<>>
    /\ match' = [match EXCEPT ![c] = adopt(match[c], Head(rtq[c]))]
    /\ rtq' = [rtq EXCEPT ![c] = Tail(rtq[c])]
    /\ UNCHANGED <<stored, loading, history, fetchResp, subscribed, tally>>
    /\ UNCHANGED nonScoreVars

\* updateScore(side, delta), with the outcome of its update request
UpdateScoreWith(c, side, delta, failed) ==
    /\ ~loading[c]
    /\ match[c] # NullMatch
    /\ tally.ops < tally.cap
    /\ history' = [history EXCEPT ![c] =
                      Append(@, [a |-> match[c].score_a, b |-> match[c].score_b])]
    /\ tally' = [tally EXCEPT !.ops = @ + 1]
    /\ IF failed
       THEN UNCHANGED <<stored, rtq>>
       ELSE LET row == applyScoreUpdate(stored,
                                        updateScorePayload(match[c], side, delta))
            IN stored' = row /\ Publish(row)
    /\ UNCHANGED <<match, loading, fetchResp, subscribed>>
    /\ UNCHANGED nonScoreVars

UpdateScore(c, side, delta) ==
    \E failed \in BOOLEAN : UpdateScoreWith(c, side, delta, failed)

\* handleUndo with a non-empty history, with the outcome of its update request
HandleUndoWith(c, failed) ==
    /\ ~loading[c]
    /\ match[c] # NullMatch
    /\ tally.ops < tally.cap
    /\ history[c] # <<>>
    /\ history' = [history EXCEPT ![c] = SubSeq(@, 1, Len(@) - 1)]
    /\ tally' = [tally EXCEPT !.ops = @ + 1]
    /\ IF failed
       THEN UNCHANGED <<stored, rtq>>
       ELSE LET row == applyUndoUpdate(stored, history[c][Len(history[c])])
            IN stored' = row /\ Publish(row)
    /\ UNCHANGED <<match, loading, fetchResp, subscribed>>
    /\ UNCHANGED nonScoreVars

HandleUndo(c) ==
    \E failed \in BOOLEAN : HandleUndoWith(c, failed)

\* Administration ends the match: cancelled before it is completed, or
\* completed with a winner once it is live
AdminEndMatch(status) ==
    /\ tally.ops < tally.cap
    /\ \/ status = "cancelled" /\ stored.status \in {"scheduled", "live"}
       \/ status = "completed" /\ stored.status = "live"
    /\ LET row == [stored EXCEPT !.status = status,
                      !.winner_team_id = IF status = "completed" THEN "team_a"
                                                                 ELSE "null",
                      !.commit = @ + 1]
       IN /\ stored' = row
          /\ Publish(row)
    /\ tally' = [tally EXCEPT !.ops = @ + 1]
    /\ UNCHANGED <<match, loading, history, fetchResp, subscribed>>
    /\ UNCHANGED nonScoreVars

----------------------------------------------------------------------------
(* Scoring: specification *)

InitScore ==
    /\ stored = NewMatch
    /\ match = [c \in Scorers |-> NullMatch]
    /\ loading = [c \in Scorers |-> TRUE]
    /\ history = [c \in Scorers |-> <<>>]
    /\ fetchResp = [c \in Scorers |-> NoFetch]
    /\ subscribed = [c \in Scorers |-> FALSE]
    /\ rtq = [c \in Scorers |-> <<>>]
    /\ tally = NoTally

----------------------------------------------------------------------------
(* TournamentView (the clients are the organizer's: isOrganizer holds) *)

\* the client has not loaded the tournament row yet
NoTournament == [loaded |-> FALSE, is_locked |-> FALSE]

\* fetchTournamentData: the tournament row, then teams, matches and members
FetchTournamentData(c) ==
    /\ tournament[c] = NoTournament
    /\ tournament' = [tournament EXCEPT ![c] = [loaded |-> TRUE, is_locked |-> is_locked]]
    /\ teams' = [teams EXCEPT ![c] = dbTeams]
    /\ teamMembers' = [teamMembers EXCEPT ![c] = dbMembers]
    /\ matches' = [matches EXCEPT ![c] = Len(dbMatches)]
    /\ UNCHANGED <<is_locked, dbTeams, dbMembers, dbMatches>>
    /\ UNCHANGED nonTvVars

\* fetchMatches, run by the matches channel on every change of the table
FetchMatches(c) ==
    /\ tournament[c] # NoTournament
    /\ matches[c] # Len(dbMatches)
    /\ matches' = [matches EXCEPT ![c] = Len(dbMatches)]
    /\ UNCHANGED <<is_locked, dbTeams, dbMembers, dbMatches, tournament, teams,
                   teamMembers>>
    /\ UNCHANGED nonTvVars

\* fetchTeamMembers, run by the team_members channel on every change
FetchTeamMembers(c) ==
    /\ tournament[c] # NoTournament
    /\ teamMembers[c] # dbMembers
    /\ teamMembers' = [teamMembers EXCEPT ![c] = dbMembers]
    /\ UNCHANGED <<is_locked, dbTeams, dbMembers, dbMatches, tournament, teams,
                   matches>>
    /\ UNCHANGED nonTvVars

\* the roster controls are rendered: isOrganizer && !tournament.is_locked
rosterControlsShown(cached) == cached.loaded /\ ~cached.is_locked

\* handleAddTeam: the insert, then fetchTeams
HandleAddTeam(c) ==
    /\ rosterControlsShown(tournament[c])
    /\ dbTeams < MaxTeams
    /\ dbTeams' = dbTeams + 1
    /\ teams' = [teams EXCEPT ![c] = dbTeams + 1]
    /\ UNCHANGED <<is_locked, dbMembers, dbMatches, tournament, teamMembers, matches>>
    /\ UNCHANGED nonTvVars

\* handleAddMember, from the modal a team card of the client opens
HandleAddMember(c) ==
    /\ rosterControlsShown(tournament[c])
    /\ teams[c] > 0
    /\ dbMembers < MaxMembers
    /\ dbMembers' = dbMembers + 1
    /\ UNCHANGED <<is_locked, dbTeams, dbMatches, tournament, teams, teamMembers,
                   matches>>
    /\ UNCHANGED nonTvVars

\* handleRemoveMember, for a member the client lists
HandleRemoveMember(c) ==
    /\ rosterControlsShown(tournament[c])
    /\ teamMembers[c] > 0
    /\ dbMembers > 0
    /\ dbMembers' = dbMembers - 1
    /\ UNCHANGED <<is_locked, dbTeams, dbMatches, tournament, teams, teamMembers,
                   matches>>
    /\ UNCHANGED nonTvVars

\* the match_order handleGenerateMatch gives the new row
nextMatchOrder(localLength, rows) == localLength + 1

\* handleGenerateMatch: needs two teams in the client's list
HandleGenerateMatch(c) ==
    /\ tournament[c] # NoTournament
    /\ teams[c] >= 2
    /\ Len(dbMatches) < MaxMatches
    /\ dbMatches' = Append(dbMatches, nextMatchOrder(matches[c], dbMatches))
    /\ UNCHANGED <<is_locked, dbTeams, dbMembers, tournament, teams, teamMembers,
                   matches>>
    /\ UNCHANGED nonTvVars

\* handleLock: the update, then fetchTournamentData starts over
HandleLock(c) ==
    /\ rosterControlsShown(tournament[c])
    /\ is_locked' = TRUE
    /\ tournament' = [tournament EXCEPT ![c] = NoTournament]
    /\ UNCHANGED <<dbTeams, dbMembers, dbMatches, teams, teamMembers, matches>>
    /\ UNCHANGED nonTvVars

\* a tournament just created, no view of it open
InitTournamentView ==
    /\ is_locked = FALSE
    /\ dbTeams = 0
    /\ dbMembers = 0
    /\ dbMatches = <<>>
    /\ tournament = [c \in Organizers |-> NoTournament]
    /\ teams = [c \in Organizers |-> 0]
    /\ teamMembers = [c \in Organizers |-> 0]
    /\ matches = [c \in Organizers |-> 0]

----------------------------------------------------------------------------
(* AuthPage: username and login identity (the form with [a-z0-9_]) *)

\* String.prototype.toLowerCase, on one character
toLowerCase(ch) == IF ch = "A" THEN "a" ELSE ch

LowerAll(str) == [i \in 1..Len(str) |-> toLowerCase(str[i])]

\* str.replace(/[^...]/g, ''): the characters of the class, in order
RECURSIVE Keep(_, _)
Keep(str, class) ==
    IF str = <<>> THEN <<>>
    ELSE IF Head(str) \in class THEN <<Head(str)>> \o Keep(Tail(str), class)
         ELSE Keep(Tail(str), class)

\* [a-z0-9_] and [a-z0-9], among the characters typed
WordChars == {"a", "b", "_"}
AlphaNum  == {"a", "b"}

\* username onChange: e.target.value.toLowerCase().replace(/[^a-z0-9_]/g, '')
onChangeUsername(value) == Keep(LowerAll(value), WordChars)

NoIdentity == <<>>

\* getInternalEmail: null under three characters (trim has nothing to remove
\* from a value of the input)
getInternalEmail(username) ==
    LET clean == Keep(LowerAll(username), AlphaNum)
    IN IF Len(clean) < 3 THEN NoIdentity ELSE Append(clean, "@shuttleup.internal")

NotSignedUp == [username |-> <<>>, email |-> NoIdentity]

\* a key typed at the end of the username input
TypeKey(f, ch) ==
    /\ signedUp[f] = NotSignedUp
    /\ Len(formData[f]) < MaxLen
    /\ formData' = [formData EXCEPT ![f] = onChangeUsername(Append(@, ch))]
    /\ UNCHANGED signedUp
    /\ UNCHANGED nonIdVars

\* handleAuth in sign-up mode, with a username that yields an identity
HandleAuth(f) ==
    /\ signedUp[f] = NotSignedUp
    /\ getInternalEmail(formData[f]) # NoIdentity
    /\ signedUp' = [signedUp EXCEPT ![f] =
                       [username |-> formData[f],
                        email |-> getInternalEmail(formData[f])]]
    /\ UNCHANGED formData
    /\ UNCHANGED nonIdVars

InitAuthPage ==
    /\ formData = [f \in Forms |-> <<>>]
    /\ signedUp = [f \in Forms |-> NotSignedUp]

----------------------------------------------------------------------------
(* App: authentication gate, values *)

NoSession == "none"

NoProfile == [id |-> "none", role |-> "none"]

NoFetchReq == [user |-> "none", origin |-> "none"]

\* the account has no profiles row
NoRow == "none"

\* the role column of the account's profiles row
roleOf(u) == authRows[u]

SUPER_PIN == "31218"

Pins == {SUPER_PIN, "00000"}

\* how the select of fetchProfile ends: the row, no row, another error
Outcomes == {"found", "missing", "error"}

\* profiles.upsert({ id, ..., role: 'player' }): the row is written whole
upsertRole(rows, userId) == [rows EXCEPT ![userId] = "player"]

\* profiles.insert({ id, ..., role: 'player' }): a duplicate key leaves the row
insertRole(rows, userId) ==
    IF rows[userId] = NoRow THEN [rows EXCEPT ![userId] = "player"] ELSE rows

\* .select('*').eq('id', userId).single() can end this way
CanEnd(outcome, userId) ==
    /\ outcome = "found" => authRows[userId] # NoRow
    /\ outcome = "missing" => authRows[userId] = NoRow

InitAuth ==
    /\ authSession = NoSession
    /\ authProfile = NoProfile
    /\ authState = "unauthenticated"
    /\ isPinVerified = FALSE
    /\ fetchInProgress = FALSE
    /\ fetchReq = NoFetchReq
    /\ authLoading = FALSE
    /\ profileError = FALSE
    /\ slowLoad = FALSE
    /\ pinEntered = FALSE
    /\ authRows = [u \in AuthUsers |-> CASE u = "a1" -> "superadmin"
                                        [] u = "p2" -> NoRow
                                        [] OTHER -> "player"]

----------------------------------------------------------------------------
(* App with appState *)

\* fetchProfile up to its await
FetchProfileStart(userId) ==
    IF fetchInProgress
    THEN UNCHANGED <<fetchInProgress, fetchReq, authState>>
    ELSE /\ fetchInProgress' = TRUE
         /\ authState' = "loading_profile"
         /\ fetchReq' = [user |-> userId, origin |-> "auth"]

\* the events the auth client delivers: a sign-out, a sign-in when nobody is
\* signed in, or another event of the user signed in (token refreshed)
AuthEventPossible(newSession) ==
    newSession = NoSession \/ authSession \in {NoSession, newSession}

\* the onAuthStateChange callback
OnAuthStateChange(newSession) ==
    /\ UNCHANGED authRows
    /\ AuthEventPossible(newSession)
    /\ IF newSession = NoSession
       THEN /\ authSession' = NoSession
            /\ authProfile' = NoProfile
            /\ authState' = "unauthenticated"
            /\ pinEntered' = FALSE
            /\ UNCHANGED <<fetchInProgress, fetchReq>>
       ELSE /\ authSession' = newSession
            /\ FetchProfileStart(newSession)
            /\ UNCHANGED <<authProfile, pinEntered>>
    /\ UNCHANGED <<isPinVerified, authLoading, profileError, slowLoad>>
    /\ UNCHANGED nonAuthVars

\* setIsPinVerified(data.role !== 'superadmin')
pinAfterLoad(role, verified) == role # "superadmin"

\* fetchProfile after its await
ProfileFetched(outcome) ==
    /\ fetchReq # NoFetchReq
    /\ CanEnd(outcome, fetchReq.user)
    /\ UNCHANGED authRows
    /\ IF outcome = "found"
       THEN /\ authProfile' = [id |-> fetchReq.user, role |-> roleOf(fetchReq.user)]
            /\ isPinVerified' = pinAfterLoad(roleOf(fetchReq.user), isPinVerified)
            /\ authState' = "ready"
            /\ pinEntered' = IF authProfile.id = fetchReq.user THEN pinEntered ELSE FALSE
       ELSE /\ authState' = "no_profile"
            /\ UNCHANGED <<authProfile, isPinVerified, pinEntered>>
    /\ fetchInProgress' = FALSE
    /\ fetchReq' = NoFetchReq
    /\ UNCHANGED <<authSession, authLoading, profileError, slowLoad>>
    /\ UNCHANGED nonAuthVars

\* initializeProfile on the no_profile screen, with the outcome of its upsert
AppInitializeProfile(failed) ==
    /\ authState = "no_profile"
    /\ authSession # NoSession
    /\ authRows' = IF failed THEN authRows ELSE upsertRole(authRows, authSession)
    /\ IF failed
       THEN UNCHANGED <<authState, fetchInProgress, fetchReq>>
       ELSE IF fetchInProgress
            THEN /\ authState' = "loading_profile"
                 /\ UNCHANGED <<fetchInProgress, fetchReq>>
            ELSE FetchProfileStart(authSession)
    /\ UNCHANGED <<authSession, authProfile, isPinVerified, pinEntered, authLoading,
                   profileError, slowLoad>>
    /\ UNCHANGED nonAuthVars

\* the PIN gate is rendered
PinGateShown == /\ authState = "ready"
                /\ authProfile.role = "superadmin" /\ ~isPinVerified

\* the Navbar and the page (Dashboard, TournamentView, ScoringView) are rendered
ViewsShown == authState = "ready" /\ ~PinGateShown

\* handlePinSubmit
HandlePinSubmit(pinInput) ==
    /\ UNCHANGED authRows
    /\ PinGateShown
    /\ IF pinInput = SUPER_PIN
       THEN isPinVerified' = TRUE /\ pinEntered' = TRUE
       ELSE UNCHANGED <<isPinVerified, pinEntered>>
    /\ UNCHANGED <<authSession, authProfile, authState, fetchInProgress, fetchReq,
                   authLoading, profileError, slowLoad>>
    /\ UNCHANGED nonAuthVars

\* onRefreshProfile of the Dashboard: fetchProfile(session.user.id)
RefreshProfile ==
    /\ UNCHANGED authRows
    /\ ViewsShown
    /\ authSession # NoSession
    /\ FetchProfileStart(authSession)
    /\ UNCHANGED <<authSession, authProfile, isPinVerified, pinEntered, authLoading,
                   profileError, slowLoad>>
    /\ UNCHANGED nonAuthVars

----------------------------------------------------------------------------
(* The App before it, with loading / profileError / slowLoad *)

\* fetchProfile up to its await
EarlierFetchProfileStart(userId, origin) ==
    IF fetchInProgress
    THEN UNCHANGED <<fetchInProgress, fetchReq, authLoading, profileError>>
    ELSE /\ fetchInProgress' = TRUE
         /\ authLoading' = TRUE
         /\ profileError' = FALSE
         /\ fetchReq' = [user |-> userId, origin |-> origin]

\* the onAuthStateChange callback; when fetchProfile returns at once (a fetch
\* is in progress) the callback goes on to setSlowLoad(false)
EarlierOnAuthStateChange(newSession) ==
    /\ UNCHANGED authRows
    /\ AuthEventPossible(newSession)
    /\ authSession' = newSession
    /\ IF newSession = NoSession
       THEN /\ authProfile' = NoProfile
            /\ isPinVerified' = FALSE
            /\ profileError' = FALSE
            /\ authLoading' = FALSE
            /\ slowLoad' = FALSE
            /\ pinEntered' = FALSE
            /\ UNCHANGED <<fetchInProgress, fetchReq>>
       ELSE /\ EarlierFetchProfileStart(newSession, "auth")
            /\ slowLoad' = IF fetchInProgress THEN FALSE ELSE slowLoad
            /\ UNCHANGED <<authProfile, isPinVerified, pinEntered>>
    /\ UNCHANGED authState
    /\ UNCHANGED nonAuthVars

\* the 5 s timer of the callback fires while its fetch is in flight
SlowLoadTimer ==
    /\ UNCHANGED authRows
    /\ fetchReq.origin = "auth"
    /\ ~slowLoad
    /\ slowLoad' = TRUE
    /\ UNCHANGED <<authSession, authProfile, authState, isPinVerified, fetchInProgress,
                   fetchReq, authLoading, profileError, pinEntered>>
    /\ UNCHANGED nonAuthVars

\* if (data.role !== 'superadmin') setIsPinVerified(true)
earlierPinAfterLoad(role, verified) == IF role # "superadmin" THEN TRUE ELSE verified

\* fetchProfile after its await; the callback that awaited it then clears
\* its timer and does setSlowLoad(false)
EarlierProfileFetched(outcome) ==
    /\ fetchReq # NoFetchReq
    /\ CanEnd(outcome, fetchReq.user)
    /\ UNCHANGED authRows
    /\ IF outcome = "found"
       THEN /\ authProfile' = [id |-> fetchReq.user, role |-> roleOf(fetchReq.user)]
            /\ isPinVerified' = earlierPinAfterLoad(roleOf(fetchReq.user), isPinVerified)
            /\ profileError' = FALSE
            /\ pinEntered' = IF authProfile.id = fetchReq.user THEN pinEntered ELSE FALSE
       ELSE /\ profileError' = (outcome = "missing")
            /\ UNCHANGED <<authProfile, isPinVerified, pinEntered>>
    /\ authLoading' = FALSE
    /\ fetchInProgress' = FALSE
    /\ fetchReq' = NoFetchReq
    /\ slowLoad' = IF fetchReq.origin = "auth" THEN FALSE ELSE slowLoad
    /\ UNCHANGED <<authSession, authState>>
    /\ UNCHANGED nonAuthVars

\* what the App renders
Screen ==
    IF authSession = NoSession /\ ~authLoading THEN "auth_page"
    ELSE IF profileError /\ ~authLoading THEN "profile_setup"
    ELSE IF authLoading \/ (authProfile = NoProfile /\ authSession # NoSession)
         THEN "spinner"
    ELSE IF authProfile.role = "superadmin" /\ ~isPinVerified THEN "pin_gate"
    ELSE "views"

\* createMissingProfile ("Initialize Profile" on the setup screen, "Force Sync
\* Profile" under the slow spinner), with the outcome of its insert
EarlierCreateMissingProfile(failed) ==
    /\ authSession # NoSession
    /\ Screen = "profile_setup" \/ (Screen = "spinner" /\ slowLoad)
    /\ authRows' = IF failed THEN authRows ELSE insertRole(authRows, authSession)
    /\ IF failed
       THEN /\ profileError' = TRUE
            /\ authLoading' = FALSE
            /\ UNCHANGED <<fetchInProgress, fetchReq>>
       ELSE IF fetchInProgress
            THEN /\ profileError' = FALSE
                 /\ authLoading' = FALSE
                 /\ UNCHANGED <<fetchInProgress, fetchReq>>
            ELSE EarlierFetchProfileStart(authSession, "manual")
    /\ UNCHANGED <<authSession, authProfile, authState, isPinVerified, slowLoad,
                   pinEntered>>
    /\ UNCHANGED nonAuthVars

\* handlePinSubmit
EarlierHandlePinSubmit(pinInput) ==
    /\ UNCHANGED authRows
    /\ Screen = "pin_gate"
    /\ IF pinInput = SUPER_PIN
       THEN isPinVerified' = TRUE /\ pinEntered' = TRUE
       ELSE UNCHANGED <<isPinVerified, pinEntered>>
    /\ UNCHANGED <<authSession, authProfile, authState, fetchInProgress, fetchReq,
                   authLoading, profileError, slowLoad>>
    /\ UNCHANGED nonAuthVars

----------------------------------------------------------------------------
(* Specifications *)

Init == InitLedger /\ InitScore /\ InitTournamentView /\ InitAuthPage /\ InitAuth

\* the scoring view is studied with the ledger at rest
InitScoring == Init /\ session = [t \in Tabs |-> "u1"]

NextLedger ==
    \/ \E t \in Tabs : FetchProfile(t)
    \/ \E t \in Tabs : InitializeProfile(t)
    \/ \E t \in Tabs : CreateMissingProfile(t)
    \/ \E t \in Tabs : Reload(t)
    \/ \E t \in Tabs, amt \in TopUpAmounts, ref \in Refs : FinalizePayment(t, amt, ref)
    \/ \E t \in Tabs : CreateTournamentDeduct(t)
    \/ \E t \in Tabs : CreateTournamentInsert(t)

NextScore ==
    \/ \E c \in Scorers : Open(c)
    \/ \E c \in Scorers : FetchRead(c)
    \/ \E c \in Scorers : FetchArrive(c)
    \/ \E c \in Scorers : RealtimeUpdate(c)
    \/ \E c \in Scorers, side \in Sides, delta \in Deltas : UpdateScore(c, side, delta)
    \/ \E c \in Scorers : HandleUndo(c)
    \/ \E status \in Terminal : AdminEndMatch(status)

SpecLedger == Init /\ [][NextLedger]_vars
SpecScore  == InitScoring /\ [][NextScore]_vars

\* Late in the first set: scorer s1 opened the view of the new match and
\* tapped +1 for side A max_points - 1 times, every write committed and every
\* event delivered before the next tap.  Tap i pushed { a: i - 1, b: 0 } and
\* wrote score_a = i with status 'live'.
RallyLength == NewMatch.max_points - 1

RallyRow == [NewMatch EXCEPT !.status = "live", !.score_a = RallyLength,
                             !.commit = RallyLength]

InitLateSet ==
    /\ InitLedger
    /\ InitTournamentView
    /\ InitAuthPage
    /\ InitAuth
    /\ session = [t \in Tabs |-> "u1"]
    /\ stored = RallyRow
    /\ match = [c \in Scorers |-> IF c = "s1" THEN RallyRow ELSE NullMatch]
    /\ loading = [c \in Scorers |-> c # "s1"]
    /\ history = [c \in Scorers |->
                     IF c = "s1" THEN [i \in 1..RallyLength |-> [a |-> i - 1, b |-> 0]]
                                 ELSE <<>>]
    /\ fetchResp = [c \in Scorers |-> NoFetch]
    /\ subscribed = [c \in Scorers |-> c = "s1"]
    /\ rtq = [c \in Scorers |-> <<>>]
    /\ tally = NoTally

SpecLateSet == InitLateSet /\ [][NextScore]_vars

\* One scorer, no other writer: s1 opens the view of the new match, issues
\* updateScore calls and then handleUndo calls (no updateScore once an undo
\* was issued: every request so far has left its entry in the history).
InitSolo ==
    /\ InitLedger
    /\ InitTournamentView
    /\ InitAuthPage
    /\ InitAuth
    /\ session = [t \in Tabs |-> "u1"]
    /\ stored = NewMatch
    /\ match = [c \in Scorers |-> NullMatch]
    /\ loading = [c \in Scorers |-> TRUE]
    /\ history = [c \in Scorers |-> <<>>]
    /\ fetchResp = [c \in Scorers |-> NoFetch]
    /\ subscribed = [c \in Scorers |-> FALSE]
    /\ rtq = [c \in Scorers |-> <<>>]
    /\ tally = [ops |-> 0, cap |-> MaxSoloOps]

SoloUpdateScore(side, delta) ==
    /\ Len(history["s1"]) = tally.ops
    /\ UpdateScore("s1", side, delta)

NextSolo ==
    \/ Open("s1")
    \/ FetchRead("s1")
    \/ FetchArrive("s1")
    \/ RealtimeUpdate("s1")
    \/ \E side \in Sides, delta \in Deltas : SoloUpdateScore(side, delta)
    \/ HandleUndo("s1")

SpecSolo == InitSolo /\ [][NextSolo]_vars

NextTournamentView ==
    \/ \E c \in Organizers : FetchTournamentData(c)
    \/ \E c \in Organizers : FetchMatches(c)
    \/ \E c \in Organizers : FetchTeamMembers(c)
    \/ \E c \in Organizers : HandleAddTeam(c)
    \/ \E c \in Organizers : HandleAddMember(c)
    \/ \E c \in Organizers : HandleRemoveMember(c)
    \/ \E c \in Organizers : HandleGenerateMatch(c)
    \/ \E c \in Organizers : HandleLock(c)

SpecTournamentView == InitScoring /\ [][NextTournamentView]_vars

NextAuthPage ==
    \/ \E f \in Forms, ch \in Keys : TypeKey(f, ch)
    \/ \E f \in Forms : HandleAuth(f)

SpecAuthPage == InitScoring /\ [][NextAuthPage]_vars

NextApp ==
    \/ \E newSession \in AuthUsers \cup {NoSession} : OnAuthStateChange(newSession)
    \/ \E outcome \in Outcomes : ProfileFetched(outcome)
    \/ \E failed \in BOOLEAN : AppInitializeProfile(failed)
    \/ \E pinInput \in Pins : HandlePinSubmit(pinInput)
    \/ RefreshProfile

SpecApp == InitScoring /\ [][NextApp]_vars

NextEarlierApp ==
    \/ \E newSession \in AuthUsers \cup {NoSession} :
          EarlierOnAuthStateChange(newSession)
    \/ SlowLoadTimer
    \/ \E outcome \in Outcomes : EarlierProfileFetched(outcome)
    \/ \E failed \in BOOLEAN : EarlierCreateMissingProfile(failed)
    \/ \E pinInput \in Pins : EarlierHandlePinSubmit(pinInput)

SpecEarlierApp == InitScoring /\ [][NextEarlierApp]_vars

----------------------------------------------------------------------------
(* Credit ledger: properties (SpecLedger) *)

\* C1: a payment reference is credited once.  Every reference passed to
\* finalizePayment so far is carried by exactly one transaction row; every call
\* reports success; a call that repeats an earlier call of the same account
\* with the same reference leaves the balance as it was, and the first call
\* with a reference raises the balance by the amount.
CreditIsIdempotent ==
    /\ \A cr \in lastCredit.calls :
          Cardinality(RowsWithRef(transactions, cr[2])) = 1
    /\ lastCredit.n > 0 =>
          /\ lastCredit.ok
          /\ lastCredit.replay => lastCredit.delta = 0
          /\ lastCredit.fresh => lastCredit.delta = lastCredit.amount

\* C1, witness: the account has just repeated a call with the same reference
CreditReplayed == lastCredit.replay /\ lastCredit.n = 2

\* C2: no balance is negative, and deduct_credits_for_tournament succeeds
\* exactly when the balance it meets covers the cost (so of two debits in
\* flight against a balance that covers only one, one fails).
DebitNeverOverdraws ==
    /\ \A u \in Users : profiles[u].credits >= 0
    /\ \A t \in Tabs : pc[t] = "deducted" =>
          /\ rpcResult[t].data <=> rpcResult[t].seen - TournamentCost >= 0
          /\ rpcResult[t].data => ~rpcResult[t].error

\* C2, witness: two tabs of one account have both called the routine against
\* a balance of 200; one debit went through and left 0, the other failed
ConcurrentDebitsOneFails ==
    \E t1, t2 \in Tabs :
        /\ t1 # t2
        /\ session[t1] = session[t2]
        /\ pc[t1] = "deducted" /\ pc[t2] = "deducted"
        /\ rpcResult[t1].data /\ rpcResult[t1].seen = TournamentCost
        /\ ~rpcResult[t2].data /\ rpcResult[t2].seen = 0

\* C3: every account's balance is the sum of its transactions' amounts.
BalanceEqualsTransactionSum ==
    \A u \in Users :
        profiles[u].exists => profiles[u].credits = SumAmounts(transactions, u)

\* C4: a run of handleCreateTournament that created a tournament row had its
\* fee debit succeed.
TournamentOnlyAfterDebit ==
    \A t \in Tabs : run[t].created => run[t].debited

\* C5: a completed run of handleCreateTournament either created the tournament
\* and took 200 credits, or created nothing and left the balance as it was.
CreateTournamentAllOrNothing ==
    \A t \in Tabs : run[t].state = "done" =>
        \/ run[t].created /\ run[t].net = 0 - TournamentCost
        \/ ~run[t].created /\ run[t].net = 0

\* C16: creating a profile never touches the credits of an existing row.  A
\* step of initializeProfile or createMissingProfile for a user whose profiles
\* row exists leaves that row's credits as they were.
ProfileCreationKeepsCredits ==
    [][\A t \in Tabs :
          ( /\ profiles[session[t]].exists
            /\ InitializeProfile(t) \/ CreateMissingProfile(t) )
          => profiles'[session[t]].credits = profiles[session[t]].credits]_vars

----------------------------------------------------------------------------
(* Scoring: properties (SpecScore) *)

Abs(x) == IF x >= 0 THEN x ELSE 0 - x

\* a step of one of the two scoring handlers
ScoringStep ==
    \/ \E c \in Scorers, side \in Sides, delta \in Deltas : UpdateScore(c, side, delta)
    \/ \E c \in Scorers : HandleUndo(c)

LegalMove(from, to) ==
    \/ to = from
    \/ from = "scheduled" /\ to = "live"
    \/ from = "live" /\ to \in Terminal

\* C6: no point is lost.  Every committed +1 raises the stored score of its
\* side by one and leaves the stored score of the other side alone.
NoPointLost ==
    [][\A c \in Scorers, side \in Sides :
          UpdateScoreWith(c, side, 1, FALSE) =>
             /\ stored'.score_a = stored.score_a + (IF side = "a" THEN 1 ELSE 0)
             /\ stored'.score_b = stored.score_b + (IF side = "b" THEN 1 ELSE 0)]_vars

\* C7: an undo is an inverse delta on the stored state.  A committed undo
\* leaves one side's stored score alone and moves the other by at most one
\* point, so a point another client committed in the meantime stays.
UndoIsInverseDelta ==
    [][\A c \in Scorers :
          HandleUndoWith(c, FALSE) =>
             Abs(stored'.score_a - stored.score_a)
               + Abs(stored'.score_b - stored.score_b) <= 1]_vars

\* C8: a scoring step moves the status only along
\* scheduled -> live -> {completed, cancelled}.
ScoringKeepsStatusOrder ==
    [][ScoringStep => LegalMove(stored.status, stored'.status)]_vars

\* C9: a scoring step on a completed or cancelled match leaves the stored row
\* as it was.
TerminalRowImmutable ==
    [][(ScoringStep /\ stored.status \in Terminal) =>
          Columns(stored') = Columns(stored)]_vars

\* C10: the stored scores are never negative and current_set never decreases.
ScoresNonNegativeSetMonotone ==
    [][/\ stored.score_a >= 0 /\ stored.score_b >= 0
       /\ stored'.score_a >= 0 /\ stored'.score_b >= 0
       /\ stored'.current_set >= stored.current_set]_vars

\* C10, witness: the only request so far was a committed -1 on a side at 0
MinusAtZeroCommitted ==
    /\ tally.ops = 1
    /\ stored.status = "live"
    /\ stored.score_a = 0 /\ stored.score_b = 0

----------------------------------------------------------------------------
(* Sets and match completion: properties *)

\* the set is won at max_points with a lead of two
SetWon(mine, other, max_points) == mine >= max_points /\ mine - other >= 2

OtherSide(side) == IF side = "a" THEN "b" ELSE "a"

ScoreOf(row, side) == IF side = "a" THEN row.score_a ELSE row.score_b

SetsWonOf(row, side) == IF side = "a" THEN row.sets_won_a ELSE row.sets_won_b

TeamOf(side) == IF side = "a" THEN "team_a" ELSE "team_b"

\* sets a side must win to take a best-of-three match
SetsToWin == 2

\* C11: the winning point completes the set.  A committed +1 on a match in
\* play that brings its side's stored score to max_points or more, two or more
\* ahead, raises that side's sets_won by one, resets both scores to 0 and
\* moves current_set on by one.
SetCompletesOnWinningPoint ==
    [][\A c \in Scorers, side \in Sides :
          ( /\ UpdateScoreWith(c, side, 1, FALSE)
            /\ stored.status \in {"scheduled", "live"}
            /\ SetWon(ScoreOf(stored, side) + 1, ScoreOf(stored, OtherSide(side)),
                      stored.max_points) )
          => /\ SetsWonOf(stored', side) = SetsWonOf(stored, side) + 1
             /\ stored'.score_a = 0 /\ stored'.score_b = 0
             /\ stored'.current_set = stored.current_set + 1]_vars

\* C12: the match completes on the deciding set.  A write that raises a
\* side's sets_won to the majority leaves the match completed with that side
\* as winner, and no delta is committed on a completed match.
MatchCompletesOnMajority ==
    [][/\ \A side \in Sides :
             ( /\ SetsWonOf(stored', side) > SetsWonOf(stored, side)
               /\ SetsWonOf(stored', side) >= SetsToWin )
             => /\ stored'.status = "completed"
                /\ stored'.winner_team_id = TeamOf(side)
       /\ stored.status = "completed" =>
             ~ \E c \in Scorers, side \in Sides, delta \in Deltas :
                   UpdateScoreWith(c, side, delta, FALSE)]_vars

\* C18: the first point makes the match live, in one write.  A committed
\* updateScore on a scheduled match leaves it live, and a step that leaves the
\* match scheduled leaves its scores as they were.
FirstPointGoesLive ==
    [][/\ \A c \in Scorers, side \in Sides, delta \in Deltas :
             (UpdateScoreWith(c, side, delta, FALSE) /\ stored.status = "scheduled")
             => stored'.status = "live"
       /\ (stored.status = "scheduled" /\ stored'.status = "scheduled")
             => /\ stored'.score_a = stored.score_a
                /\ stored'.score_b = stored.score_b]_vars

\* C18, witness: the first write of the match was a +1, and the match is live
FirstPointCommitted ==
    /\ stored.commit = 1
    /\ stored.status = "live"
    /\ stored.score_a + stored.score_b = 1

\* C19: a scheduled match stands at 0-0 in its first set (handleGenerateMatch
\* creates it so, and nothing moves it while it is scheduled).
ScheduledMatchIsUntouched ==
    stored.status = "scheduled" =>
        /\ stored.score_a = 0 /\ stored.score_b = 0
        /\ stored.current_set = 1

\* C19, witness: a write has been committed on the match and it is still
\* scheduled (an undo after an updateScore whose request failed)
ScheduledAfterCommittedWrite ==
    stored.status = "scheduled" /\ stored.commit >= 1

\* C17: a match that is scheduled or live has no winner, whatever scoring
\* actions were applied to it, a match already completed included.
NoWinnerBeforeCompletion ==
    stored.status \in {"scheduled", "live"} => stored.winner_team_id = "null"

----------------------------------------------------------------------------
(* Realtime: properties (SpecScore) *)

\* the client shows its snapshot (it shows "Loading scorer..." otherwise)
Displays(c) == ~loading[c] /\ match[c] # NullMatch

\* C13: a client's display follows the order of the commits.  The snapshot a
\* client displays is never replaced by the row of an earlier commit, in
\* whatever order the answer of fetchMatchDetails and the UPDATE events arrive.
DisplayFollowsCommitOrder ==
    [][\A c \in Scorers :
          (Displays(c) /\ loading'[c] = loading[c]) =>
              match'[c].commit >= match[c].commit]_vars

\* nothing is on its way to the client: its fetch has been answered and taken
\* and every event published to it has been delivered
Quiet(c) == subscribed[c] /\ fetchResp[c] = NoFetch /\ rtq[c] = <<>>

\* C14: no committed change is lost to a viewing client.  Once nothing more is
\* on its way to a client (so that, if the writes stop here, its display stays
\* as it is for good), the client displays the stored row.
QuietViewShowsStoredRow ==
    \A c \in Scorers : (Quiet(c) /\ ~loading[c]) => match[c] = stored

\* C15: one event per committed write, none for a failed one, adopted whole.
\* A step that commits a write appends exactly one event, the row as written,
\* to the queue of every subscribed client and nothing to any other; a step
\* that commits nothing (a failed write among them) appends no event; and the
\* client that takes an event holds exactly the event's row afterwards.
OneFullEventPerWrite ==
    [][/\ stored'.commit # stored.commit =>
             \A c \in Scorers :
                 rtq'[c] = IF subscribed[c] THEN Append(rtq[c], stored') ELSE rtq[c]
       /\ stored'.commit = stored.commit =>
             \A c \in Scorers : Len(rtq'[c]) <= Len(rtq[c])
       /\ \A c \in Scorers :
             (rtq[c] # <<>> /\ rtq'[c] = Tail(rtq[c])) => match'[c] = Head(rtq[c])]_vars

\* C15, witness: of two requests one failed and one was committed, with both
\* clients subscribed; s1 has taken the event and holds the stored row, the
\* event for s2 is still in its queue
EventTakenAndEventQueued ==
    /\ subscribed["s1"] /\ subscribed["s2"]
    /\ tally.ops = 2 /\ stored.commit = 1
    /\ match["s1"] = stored /\ rtq["s1"] = <<>>
    /\ rtq["s2"] = <<stored>>

----------------------------------------------------------------------------
(* Undo history: properties (SpecLateSet) *)

\* the number of entries the undo history may hold
HistoryBound == 20

\* C20: the undo history is bounded.  No client's history ever holds more
\* than HistoryBound entries.
HistoryIsBounded ==
    \A c \in Scorers : Len(history[c]) <= HistoryBound

\* C21: the undo history is cleared by a set or match completion.  When a
\* client takes a row that shows the match completed, or a later set than the
\* row it held, its history is empty afterwards.
HistoryClearedOnCompletion ==
    [][\A c \in Scorers :
          ( /\ match[c] # NullMatch
            /\ \/ match'[c].status = "completed" /\ match[c].status # "completed"
               \/ match'[c].current_set > match[c].current_set )
          => history'[c] = <<>>]_vars

\* C23: an updateScore whose request fails leaves the undo history as it was.
FailedUpdateKeepsHistory ==
    [][\A c \in Scorers, side \in Sides, delta \in Deltas :
          UpdateScoreWith(c, side, delta, TRUE) => history'[c] = history[c]]_vars

----------------------------------------------------------------------------
(* Undo round trip: properties (SpecSolo) *)

\* every updateScore of the scorer has been answered by a handleUndo
AllUndone == tally.ops > 0 /\ history["s1"] = <<>>

ScoresAsCreated ==
    stored.score_a = NewMatch.score_a /\ stored.score_b = NewMatch.score_b

----------------------------------------------------------------------------
(* Tournament administration: properties (SpecTournamentView) *)

\* C22: a locked tournament takes no roster change.  Once is_locked is true
\* no client performs handleAddTeam, handleAddMember or handleRemoveMember.
LockedRosterIsFrozen ==
    [][is_locked =>
          ~ \E c \in Organizers :
                HandleAddTeam(c) \/ HandleAddMember(c) \/ HandleRemoveMember(c)]_vars

\* C29: match_order is unique within the tournament.
MatchOrderIsUnique ==
    \A i, j \in 1..Len(dbMatches) : dbMatches[i] = dbMatches[j] => i = j

----------------------------------------------------------------------------
(* Login identity: properties (SpecAuthPage) *)

\* C30: distinct usernames get distinct login identities.  Two forms that
\* signed up with different usernames hold different identities.
IdentityIsInjective ==
    \A f, g \in Forms :
        ( /\ signedUp[f] # NotSignedUp /\ signedUp[g] # NotSignedUp
          /\ signedUp[f].username # signedUp[g].username )
        => signedUp[f].email # signedUp[g].email

----------------------------------------------------------------------------
(* Authentication gate: properties (SpecApp, SpecEarlierApp) *)

\* C25: signed out means no profile and no authenticated view.
SignedOutHoldsNothing ==
    authSession = NoSession => (authProfile = NoProfile /\ ~ViewsShown)

\* C26: the views are shown for the profile of the session's user.
ViewsShowSessionProfile ==
    (ViewsShown /\ authSession # NoSession) => authProfile.id = authSession

\* C27: a superadmin sees the views only after the PIN was accepted for the
\* profile as loaded.
SuperadminNeedsPin ==
    (Screen = "views" /\ authProfile.role = "superadmin") => pinEntered

\* C28: the App is never on the spinner with no request in flight and no
\* action offered.
NeverStuckOnSpinner ==
    ~ (Screen = "spinner" /\ fetchReq = NoFetchReq /\ ~slowLoad)

====
